---- MODULE Spec2Model ----
(***************************************************************************)
(* Model of the SecureBootFHE contract (src/unnamed/part_000): the         *)
(* per-device boot history, the trusted reference mappings, the threshold, *)
(* the event log, and the decryption request / callback pair of the        *)
(* encrypted value service the contract calls.                             *)
(*                                                                         *)
(* A ciphertext handle is modelled by a number: 0 is the uninitialised     *)
(* handle (the default of a mapping slot), h > 0 encrypts the value h - 1. *)
(* The homomorphic operations compute on the encrypted values, as the      *)
(* service does.  Every external call runs to completion (a transaction),  *)
(* so each is one action; a revert leaves the contract state unchanged.    *)
(***************************************************************************)
EXTENDS Integers, Sequences, FiniteSets, TLC

VARIABLES
    deviceBootRecords,      \* mapping(address => BootStage[])
    trustedChecksums,       \* mapping(address => euint32)
    trustedSizes,           \* mapping(address => euint32)
    trustedVersions,        \* mapping(address => euint32)
    verificationThreshold,  \* uint256
    admin,                  \* address
    events,                 \* the event log of the contract, in emission order
    requests,               \* decryption requests issued by FHE.requestDecryption
    now,                    \* block.timestamp of the latest block
    last,                   \* the latest external call and its outcome
    prev,                   \* the state that call was made in
    kvStore,                \* the dashboard's key-value store: key -> bytes
    session                 \* the dashboard clients: where each is in a handler

vars == <<deviceBootRecords, trustedChecksums, trustedSizes, trustedVersions,
          verificationThreshold, admin, events, requests, now, last, prev,
          kvStore, session>>

\* The variables of the contract model, and those of the dashboard model.
contractVars == <<deviceBootRecords, trustedChecksums, trustedSizes, trustedVersions,
                  verificationThreshold, admin, events, requests, now, last, prev>>

mirrorVars == <<kvStore, session>>

\* The storage of the contract and its log: what a reverted call leaves alone.
contractState == <<deviceBootRecords, trustedChecksums, trustedSizes,
                   trustedVersions, verificationThreshold, admin, events>>

\* What a call can read and write, as a record.
Snapshot ==
    [records |-> deviceBootRecords, checksums |-> trustedChecksums,
     sizes |-> trustedSizes, versions |-> trustedVersions,
     threshold |-> verificationThreshold, admin |-> admin, events |-> events,
     requests |-> requests]

-----------------------------------------------------------------------------
(* Bounds of the model *)

MaxEvents == 4      \* length of the event log
MaxRequests == 2    \* decryption requests issued
MaxRecords == 2     \* records the dashboard clients submit

(* Program constants *)

NullHandle == 0

Deployer == "admin"
Addr == {"admin", "dev1"}

\* A uint256 is kept as its low 32 bits (lo) and the bits above them (hi): the
\* value is hi * 2^32 + lo.
U256(hi, lo) == [hi |-> hi, lo |-> lo]

\* The threshold the contract is deployed with: 5.
InitialThreshold == U256(0, 5)

\* The values updateVerificationThreshold is given: 2, 8 and 2^32 + 2.
Thresholds == {U256(0, 2), U256(0, 8), U256(1, 2)}

-----------------------------------------------------------------------------
(* The encrypted value service (FHE library), on handles *)

Plain(h) == IF h = NullHandle THEN 0 ELSE h - 1

\* The values encrypted here stay far below 2^32, where euint32 wraps.
asEuint32(v) == v + 1

\* uint32(x) of a uint256 x: its low 32 bits.
Uint32(x) == x.lo

FHEeq(a, b) == Plain(a) = Plain(b)

FHEgt(a, b) == Plain(a) > Plain(b)

FHEselect(c, a, b) == IF c THEN a ELSE b

FHEadd(a, b) == asEuint32(Plain(a) + Plain(b))

-----------------------------------------------------------------------------
(* Inputs *)

Component(c, s, v) ==
    [encryptedChecksum |-> c, encryptedSize |-> s, encryptedVersion |-> v,
     isVerified |-> FALSE]

\* Reference profiles the admin registers: (C=42, S=1024, V=3), and one made
\* of uninitialised handles.
Profiles == { <<asEuint32(42), asEuint32(1024), asEuint32(3)>>,
              <<NullHandle, NullHandle, NullHandle>> }

GoodComponent == Component(asEuint32(42), asEuint32(1024), asEuint32(3))
BadChecksumComponent == Component(asEuint32(41), asEuint32(1024), asEuint32(3))
NullComponent == Component(NullHandle, NullHandle, NullHandle)

\* Boot evidence a device submits: <<bootloader, kernel, rootfs>>.
Submissions == { <<GoodComponent, GoodComponent, GoodComponent>>,
                 <<BadChecksumComponent, GoodComponent, GoodComponent>>,
                 <<NullComponent, NullComponent, NullComponent>> }

-----------------------------------------------------------------------------
(* Helpers of the contract *)

\* The record of an external call: its sender, its arguments (the device of a
\* registration, the stage id of a submission or a request, the request id of a
\* callback), the error it reverted with ("" when it did not), and for a
\* callback its cleartext, its proof and, when they are the service's, what the
\* previous call did with the same request ("processed", "rejected" or "").
\* input holds the further arguments of a call (the handles of a registration),
\* result what a view returned.
CallOf(op, caller, arg, err, input, result) ==
    [op |-> op, caller |-> caller, arg |-> arg, err |-> err,
     cleartext |-> 0, proof |-> "", after |-> "",
     input |-> input, result |-> result]

Call(op, caller, arg, err) == CallOf(op, caller, arg, err, <<>>, <<>>)

\* The proof authenticates (requestId, cleartext): it is the service's
\* signature, the request was issued, the cleartext is its decryption.
Authentic(reqs, requestId, cleartext, proof) ==
    /\ proof = "kms"
    /\ requestId < Len(reqs)
    /\ cleartext = Plain(reqs[requestId + 1].handle)

After(requestId) ==
    IF last.op = "decryptBootStatus" /\ last.arg = requestId
    THEN IF last.err = "" THEN "processed"
         ELSE IF last.err = "InvalidProof" THEN "rejected" ELSE ""
    ELSE ""

Callback(caller, requestId, cleartext, proof, err) ==
    [op |-> "decryptBootStatus", caller |-> caller, arg |-> requestId, err |-> err,
     cleartext |-> cleartext, proof |-> proof,
     after |-> IF Authentic(requests, requestId, cleartext, proof)
               THEN After(requestId) ELSE "",
     input |-> <<>>, result |-> <<>>]

\* A guard that returns early instead of reverting: no error is reported.
RevertSilently(op, caller, arg, err) ==
    /\ last' = Call(op, caller, arg, "")
    /\ UNCHANGED <<contractState, requests, now>>

\* A reverted transaction: nothing but the record of the call changes.
Revert(op, caller, arg, err) ==
    /\ last' = Call(op, caller, arg, err)
    /\ UNCHANGED <<contractState, requests, now>>

onlyAdminOff(caller) == TRUE

onlyAdmin(caller) == caller = admin

MsgSenderAdmin(caller) == admin

\* address device = msg.sender
MsgSender(caller) == caller

Emit(log, evs) == log \o evs

EvFirmwareRegistered(device) ==
    [name |-> "FirmwareRegistered", device |-> device, value |-> 0]
EvBootAttemptFirst(device, stageId) ==
    [name |-> "BootAttempt", device |-> device, value |-> 0]
EvBootAttempt(device, stageId) ==
    [name |-> "BootAttempt", device |-> device, value |-> stageId]
EvVerificationPassed(device, stageId) ==
    [name |-> "VerificationPassed", device |-> device, value |-> stageId]
EvVerificationFailed(device, stageId) ==
    [name |-> "VerificationFailed", device |-> device, value |-> stageId]
EvThresholdUpdated(newThreshold) ==
    [name |-> "ThresholdUpdated", device |-> "", value |-> newThreshold]

\* A scoring that compares the version with the reference version.
verifyComponentVersionMatch(device, component) ==
    asEuint32(
        (IF FHEeq(component.encryptedChecksum, trustedChecksums[device]) THEN 1 ELSE 0)
        + (IF FHEeq(component.encryptedSize, trustedSizes[device]) THEN 1 ELSE 0)
        + (IF FHEeq(component.encryptedVersion, trustedVersions[device]) THEN 1 ELSE 0))

verifyComponent(device, component) ==
    LET checksumValid == FHEeq(component.encryptedChecksum, trustedChecksums[device])
        sizeValid == FHEeq(component.encryptedSize, trustedSizes[device])
        versionValid == FHEgt(component.encryptedVersion, asEuint32(0))
        s0 == asEuint32(0)
        s1 == FHEadd(s0, FHEselect(checksumValid, asEuint32(1), asEuint32(0)))
        s2 == FHEadd(s1, FHEselect(sizeValid, asEuint32(1), asEuint32(0)))
        s3 == FHEadd(s2, FHEselect(versionValid, asEuint32(1), asEuint32(0)))
    IN  s3

OverallStatus(device, bootloader, kernel, rootfs) ==
    FHEadd(FHEadd(FHEadd(asEuint32(0), verifyComponent(device, bootloader)),
                  verifyComponent(device, kernel)),
           verifyComponent(device, rootfs))

\* A write to one slot of a trusted mapping that keeps a handle already there.
SetTrustedOnce(map, device, handle) ==
    IF map[device] = NullHandle THEN [map EXCEPT ![device] = handle] ELSE map

\* trustedX[device] = handle
SetTrusted(map, device, handle) == [map EXCEPT ![device] = handle]

\* require(stageId < deviceBootRecords[device].length, "Invalid stage ID")
ValidStageId(records, device, stageId) == stageId < Len(records[device])

\* Stage ids are 0-based; the array of a device is a sequence, 1-based.
StageAt(records, device, stageId) == records[device][stageId + 1]

NewStageIdZero(records, device) == 0

NewStageId(records, device) == Len(records[device])

\* An insertion at the front of the array.
PushStageFront(records, device, stage) ==
    [records EXCEPT ![device] = <<stage>> \o @]

PushStage(records, device, stage) ==
    [records EXCEPT ![device] = Append(@, stage)]

\* A write of the first of the three flags only.
MarkVerifiedBootloaderOnly(records, device, stageId) ==
    [records EXCEPT ![device][stageId + 1].bootloader.isVerified = TRUE]

MarkVerified(records, device, stageId) ==
    [records EXCEPT ![device][stageId + 1].bootloader.isVerified = TRUE,
                    ![device][stageId + 1].kernel.isVerified = TRUE,
                    ![device][stageId + 1].rootfs.isVerified = TRUE]

FinalizeAssign(records, device, stageId, passed) ==
    [records EXCEPT ![device][stageId + 1].bootloader.isVerified = passed,
                    ![device][stageId + 1].kernel.isVerified = passed,
                    ![device][stageId + 1].rootfs.isVerified = passed]

\* if (passed) { the three flags = true }
Finalize(records, device, stageId, passed) ==
    IF passed THEN MarkVerified(records, device, stageId) ELSE records

\* A callback that emits the event of its decision.
CallbackEventsOfDecision(device, stageId, passed) ==
    <<IF passed THEN EvVerificationPassed(device, stageId)
      ELSE EvVerificationFailed(device, stageId)>>

\* The events decryptBootStatus emits: it has no emit statement.
CallbackEvents(device, stageId, passed) == <<>>

\* A status view that reports no flag.
StageStatusUnverified(stage) == <<FALSE, FALSE, FALSE, stage.timestamp>>

\* The tuple getBootStageStatus returns for a stage.
StageStatus(stage) ==
    <<stage.bootloader.isVerified, stage.kernel.isVerified,
      stage.rootfs.isVerified, stage.timestamp>>

\* The decision of verifyBootStage, on the encrypted score.
SyncDecision(overallStatus, threshold) ==
    FHEgt(overallStatus, asEuint32(Uint32(threshold)))

\* The decision of decryptBootStatus, on the decrypted score.
CallbackDecision(status, threshold) == status > Uint32(threshold)

\* An update that decides every stored stage again under the new threshold.
RecordsReevaluated(records, newThreshold) ==
    [d \in DOMAIN records |->
        [i \in 1 .. Len(records[d]) |->
            [records[d][i] EXCEPT
                !.bootloader.isVerified =
                    SyncDecision(records[d][i].overallStatus, newThreshold),
                !.kernel.isVerified =
                    SyncDecision(records[d][i].overallStatus, newThreshold),
                !.rootfs.isVerified =
                    SyncDecision(records[d][i].overallStatus, newThreshold)]]]

\* The histories after updateVerificationThreshold: the function writes the
\* threshold only, no stage.
RecordsAfterThresholdUpdate(records, newThreshold) == records

\* An unchecked length - 1 that never reverts.
LengthMinusOneWraps(records, device) == FALSE

\* deviceBootRecords[device].length - 1 underflows (checked arithmetic reverts
\* with a panic) when the array is empty.
LengthMinusOneReverts(records, device) == Len(records[device]) = 0

\* A callback that overwrites the flags with its decision.
CallbackEffectOverwrite(records, log, threshold, device, status) ==
    <<FinalizeAssign(records, device, Len(records[device]) - 1,
                     CallbackDecision(status, threshold)),
      log>>

\* What a callback that passed its checks writes: <<histories, log>>.
CallbackEffect(records, log, threshold, device, status) ==
    LET latestStage == Len(records[device]) - 1
        passed == CallbackDecision(status, threshold)
    IN  <<Finalize(records, device, latestStage, passed),
          Emit(log, CallbackEvents(device, latestStage, passed))>>

-----------------------------------------------------------------------------
(* The dashboard (frontend/web/src/App.tsx) and its key-value store *)

Clients == {"c1", "c2"}

\* The ids submitRecord generates (Date.now() and a random suffix): distinct.
RecordIds == [n \in 1 .. MaxRecords |-> <<"boot", n>>]

BootKeys == <<"boot_keys">>

\* The keys of the store: the index, and boot_<id> for each record id.
StoreKeys == {BootKeys} \cup {RecordIds[n] : n \in 1 .. MaxRecords}

\* Bytes are sequences: the record bytes hold the status of the record, the
\* index bytes the ids; a key never written reads as empty bytes.
EmptyBytes == <<>>

\* contract.getData(key)
getData(store, key) == store[key]

\* contract.setData(key, bytes)
setData(store, key, bytes) == [store EXCEPT ![key] = bytes]

\* JSON.stringify(recordData) of a record with the given status.
RecordBytes(status) == <<status>>

\* keysBytes.length > 0 ? JSON.parse(keysBytes) : []
ParseKeys(keysBytes) == IF Len(keysBytes) > 0 THEN keysBytes ELSE <<>>

\* records is the list the client displays: pairs <<id, status>>.
Idle == [pc |-> "idle", recordId |-> <<>>, keys |-> <<>>, submitted |-> {},
         records |-> {}]

MirrorInit ==
    /\ kvStore = [k \in StoreKeys |-> EmptyBytes]
    /\ session = [c \in Clients |-> Idle]

-----------------------------------------------------------------------------
(* Operations *)

\* A construction that makes another address than the deployer the admin.
InitAdminNotDeployer ==
    /\ deviceBootRecords = [a \in Addr |-> <<>>]
    /\ trustedChecksums = [a \in Addr |-> NullHandle]
    /\ trustedSizes = [a \in Addr |-> NullHandle]
    /\ trustedVersions = [a \in Addr |-> NullHandle]
    /\ verificationThreshold = InitialThreshold
    /\ admin = "dev1"
    /\ events = <<>>
    /\ requests = <<>>
    /\ now = 0
    /\ last = Call("constructor", Deployer, 0, "")
    /\ prev = Snapshot
    /\ MirrorInit

Init ==
    /\ deviceBootRecords = [a \in Addr |-> <<>>]
    /\ trustedChecksums = [a \in Addr |-> NullHandle]
    /\ trustedSizes = [a \in Addr |-> NullHandle]
    /\ trustedVersions = [a \in Addr |-> NullHandle]
    /\ verificationThreshold = InitialThreshold
    /\ admin = Deployer
    /\ events = <<>>
    /\ requests = <<>>
    /\ now = 0
    /\ last = Call("constructor", Deployer, 0, "")
    /\ prev = Snapshot
    /\ MirrorInit

registerTrustedFirmware(caller, device, checksum, size, version) ==
    IF ~onlyAdmin(caller)
    THEN /\ last' = CallOf("registerTrustedFirmware", caller, device, "Admin only",
                           <<checksum, size, version>>, <<>>)
         /\ UNCHANGED <<contractState, requests, now>>
    ELSE /\ Len(events) + 1 <= MaxEvents
         /\ trustedChecksums' = SetTrusted(trustedChecksums, device, checksum)
         /\ trustedSizes' = SetTrusted(trustedSizes, device, size)
         /\ trustedVersions' = SetTrusted(trustedVersions, device, version)
         /\ events' = Emit(events, <<EvFirmwareRegistered(device)>>)
         /\ last' = CallOf("registerTrustedFirmware", caller, device, "",
                           <<checksum, size, version>>, <<>>)
         /\ UNCHANGED <<deviceBootRecords, verificationThreshold, admin,
                        requests, now>>

RegisterTrustedFirmware ==
    /\ prev' = Snapshot
    /\ UNCHANGED mirrorVars
    /\ \E caller \in Addr, device \in Addr, p \in Profiles :
        registerTrustedFirmware(caller, device, p[1], p[2], p[3])

verifyBootStage(caller, bootloader, kernel, rootfs, timestamp) ==
    LET device == MsgSender(caller)
        overallStatus == OverallStatus(device, bootloader, kernel, rootfs)
        stageId == NewStageId(deviceBootRecords, device)
        stage == [bootloader |-> bootloader, kernel |-> kernel, rootfs |-> rootfs,
                  overallStatus |-> overallStatus, timestamp |-> timestamp]
        pushed == PushStage(deviceBootRecords, device, stage)
    IN  /\ Len(events) + 2 <= MaxEvents
        /\ now' = timestamp
        /\ deviceBootRecords' =
               Finalize(pushed, device, stageId,
                        SyncDecision(overallStatus, verificationThreshold))
        /\ events' =
               Emit(events,
                    <<EvBootAttempt(device, stageId),
                      IF SyncDecision(overallStatus, verificationThreshold)
                      THEN EvVerificationPassed(device, stageId)
                      ELSE EvVerificationFailed(device, stageId)>>)
        /\ last' = Call("verifyBootStage", caller, stageId, "")
        /\ UNCHANGED <<trustedChecksums, trustedSizes, trustedVersions,
                       verificationThreshold, admin, requests>>

VerifyBootStage ==
    /\ prev' = Snapshot
    /\ UNCHANGED mirrorVars
    /\ \E caller \in Addr, sub \in Submissions :
        verifyBootStage(caller, sub[1], sub[2], sub[3], now + 1)

\* FHE.requestDecryption: the service numbers the requests from 0 and keeps the
\* handles of each.  device and stageId record what the request was made for;
\* the contract stores neither.
NewRequest(device, stageId, handle) ==
    [handle |-> handle, device |-> device, stageId |-> stageId]

requestBootStatusDecryption(caller, stageId) ==
    LET device == MsgSender(caller) IN
    IF ~ValidStageId(deviceBootRecords, device, stageId)
    THEN Revert("requestBootStatusDecryption", caller, stageId, "Invalid stage ID")
    ELSE /\ Len(requests) < MaxRequests
         /\ requests' = Append(requests,
                NewRequest(device, stageId,
                           StageAt(deviceBootRecords, device, stageId).overallStatus))
         /\ last' = Call("requestBootStatusDecryption", caller, stageId, "")
         /\ UNCHANGED <<contractState, now>>

RequestBootStatusDecryption ==
    /\ prev' = Snapshot
    /\ UNCHANGED mirrorVars
    /\ \E caller \in Addr :
        \E stageId \in 0 .. Len(deviceBootRecords[caller]) + 1 :
            requestBootStatusDecryption(caller, stageId)

checkSignaturesAnyCleartext(requestId, cleartext, proof) ==
    /\ requestId < Len(requests)
    /\ proof = "kms"

\* FHE.checkSignatures: the proof is the service's signature over the handles
\* of request requestId and the cleartext; the service signs only the
\* decryption of a request it was given.
checkSignatures(requestId, cleartext, proof) ==
    /\ requestId < Len(requests)
    /\ proof = "kms"
    /\ cleartext = Plain(requests[requestId + 1].handle)

decryptBootStatus(caller, requestId, cleartext, proof) ==
    LET status == cleartext    \* abi.decode(cleartexts, (uint32))
        device == MsgSender(caller)
    IN  IF ~checkSignatures(requestId, cleartext, proof)
        THEN /\ last' = Callback(caller, requestId, cleartext, proof, "InvalidProof")
             /\ UNCHANGED <<contractState, requests, now>>
        ELSE IF LengthMinusOneReverts(deviceBootRecords, device)
        THEN \* length - 1 underflows: checked arithmetic reverts
             /\ last' = Callback(caller, requestId, cleartext, proof, "Panic")
             /\ UNCHANGED <<contractState, requests, now>>
        ELSE LET effect == CallbackEffect(deviceBootRecords, events,
                                          verificationThreshold, device, status)
             IN
             /\ deviceBootRecords' = effect[1]
             /\ events' = effect[2]
             /\ last' = Callback(caller, requestId, cleartext, proof, "")
             /\ UNCHANGED <<trustedChecksums, trustedSizes, trustedVersions,
                            verificationThreshold, admin, requests, now>>

\* What a callback may carry for requestId: the service's signed decryption, the
\* service's signature next to another cleartext (9, the full score), a forged
\* proof of that cleartext.
Deliveries(requestId) ==
    { <<9, "forged">> } \cup
    (IF requestId < Len(requests)
     THEN { <<Plain(requests[requestId + 1].handle), "kms">>, <<9, "kms">> }
     ELSE {})

DecryptBootStatus ==
    /\ prev' = Snapshot
    /\ UNCHANGED mirrorVars
    /\ \E caller \in Addr, requestId \in 0 .. Len(requests) :
        \E d \in Deliveries(requestId) :
            decryptBootStatus(caller, requestId, d[1], d[2])

updateVerificationThreshold(caller, newThreshold) ==
    IF ~onlyAdmin(caller)
    THEN Revert("updateVerificationThreshold", caller, 0, "Admin only")
    ELSE /\ Len(events) + 1 <= MaxEvents
         /\ verificationThreshold' = newThreshold
         /\ deviceBootRecords' =
                RecordsAfterThresholdUpdate(deviceBootRecords, newThreshold)
         /\ events' = Emit(events, <<EvThresholdUpdated(newThreshold)>>)
         /\ last' = Call("updateVerificationThreshold", caller, 0, "")
         /\ UNCHANGED <<trustedChecksums, trustedSizes,
                        trustedVersions, admin, requests, now>>

UpdateVerificationThreshold ==
    /\ prev' = Snapshot
    /\ UNCHANGED mirrorVars
    /\ \E caller \in Addr, newThreshold \in Thresholds :
        updateVerificationThreshold(caller, newThreshold)

\* A view: it reads, and returns result or reverts with err.
View(op, caller, arg, err, result) ==
    /\ last' = CallOf(op, caller, arg, err, <<>>, result)
    /\ UNCHANGED <<contractState, requests, now>>

getBootStageCount(caller, device) ==
    View("getBootStageCount", caller, device, "",
         <<Len(deviceBootRecords[device])>>)

GetBootStageCount ==
    /\ prev' = Snapshot
    /\ UNCHANGED mirrorVars
    /\ \E caller \in Addr, device \in Addr : getBootStageCount(caller, device)

getBootStageStatus(caller, device, stageId) ==
    IF ~ValidStageId(deviceBootRecords, device, stageId)
    THEN View("getBootStageStatus", caller, <<device, stageId>>,
              "Invalid stage ID", <<>>)
    ELSE View("getBootStageStatus", caller, <<device, stageId>>, "",
              StageStatus(StageAt(deviceBootRecords, device, stageId)))

GetBootStageStatus ==
    /\ prev' = Snapshot
    /\ UNCHANGED mirrorVars
    /\ \E caller \in Addr, device \in Addr :
        \E stageId \in 0 .. Len(deviceBootRecords[device]) + 1 :
            getBootStageStatus(caller, device, stageId)

Next ==
    \/ RegisterTrustedFirmware
    \/ VerifyBootStage
    \/ RequestBootStatusDecryption
    \/ DecryptBootStatus
    \/ UpdateVerificationThreshold
    \/ GetBootStageCount
    \/ GetBootStageStatus

Spec == Init /\ [][Next]_vars

-----------------------------------------------------------------------------
(* Vocabulary of the properties *)

\* A reference profile was registered for device d: the log holds its event.
Registered(d) ==
    \E i \in 1 .. Len(events) : events[i] = EvFirmwareRegistered(d)

Flags(stage) ==
    <<stage.bootloader.isVerified, stage.kernel.isVerified, stage.rootfs.isVerified>>

AllVerified(stage) == Flags(stage) = <<TRUE, TRUE, TRUE>>

NoneVerified(stage) == Flags(stage) = <<FALSE, FALSE, FALSE>>

\* score > threshold on the full uint256 value of the threshold (score < 2^32).
Exceeds(score, threshold) == threshold.hi = 0 /\ score > threshold.lo

\* The latest call was a submission that was not reverted.
Submitted == last.op = "verifyBootStage" /\ last.err = ""

\* The latest call was a callback that was not reverted.
Processed == last.op = "decryptBootStatus" /\ last.err = ""

\* The request a callback names (when it was issued).
RequestOf(call) == requests[call.arg + 1]

\* The latest call changed nothing.
NothingChanged == Snapshot = prev

-----------------------------------------------------------------------------
(* Properties.  prev is the state the latest call was made in, so a property *)
(* of (prev, current state) in every reachable state is one of every call.   *)

\* C1: a verifyBootStage call by a device with no registered reference profile
\* fails with NoTrustedReference and appends nothing, so a device that was
\* never registered has an empty history.
C1_NoReferenceRejected ==
    /\ (last.op = "verifyBootStage" /\ ~Registered(last.caller))
           => last.err = "NoTrustedReference" /\ NothingChanged
    /\ \A d \in Addr : ~Registered(d) => deviceBootRecords[d] = <<>>

\* C2: right after a successful verifyBootStage the three verified flags of the
\* new stage are false, whatever the score and the threshold.
C2_SubmissionLeavesUnverified ==
    Submitted => NoneVerified(StageAt(deviceBootRecords, last.caller, last.arg))

\* C3: a processed callback with score s under threshold t sets the three flags
\* of the stage the request was made for when s > t, and leaves them false
\* when s <= t.
C3_CallbackDecidesRequestedStage ==
    Processed =>
        LET r == RequestOf(last)
            before == StageAt(prev.records, r.device, r.stageId)
            after == StageAt(deviceBootRecords, r.device, r.stageId)
        IN  IF Exceeds(last.cleartext, verificationThreshold)
            THEN AllVerified(after)
            ELSE NoneVerified(before) => NoneVerified(after)

\* C4: a processed callback changes no stage but the one its request was made
\* for: not a later stage of that device, not a stage of another identity.
C4_CallbackTouchesOnlyRequestedStage ==
    Processed =>
        LET r == RequestOf(last) IN
        \A d \in Addr : \A i \in 0 .. Len(prev.records[d]) - 1 :
            (d # r.device \/ i # r.stageId)
                => StageAt(deviceBootRecords, d, i) = StageAt(prev.records, d, i)

\* C5: a request is consumed by the callback that resolves it: the service's
\* callback that follows a processed callback of the same request fails with
\* UnknownRequest and leaves the histories unchanged.
C5_RequestConsumedOnce ==
    (last.op = "decryptBootStatus" /\ last.after = "processed")
        => last.err = "UnknownRequest" /\ deviceBootRecords = prev.records

\* C6: verified flags are monotonic: over every call, a stage that exists keeps
\* existing, and each of its flags that is true stays true.
C6_VerifiedMonotonic ==
    \A d \in Addr : \A i \in 0 .. Len(prev.records[d]) - 1 :
        /\ i < Len(deviceBootRecords[d])
        /\ \A k \in 1 .. 3 :
              Flags(StageAt(prev.records, d, i))[k]
                  => Flags(StageAt(deviceBootRecords, d, i))[k]

\* C6 witness: a callback whose score does not pass was processed on a device
\* whose latest stage was verified.
C6_Witness ==
    /\ Processed
    /\ ~CallbackDecision(last.cleartext, verificationThreshold)
    /\ AllVerified(StageAt(prev.records, last.caller,
                           Len(prev.records[last.caller]) - 1))

\* The stage ids of the BootAttempt events of device d, in emission order.
AttemptIds(log, d) ==
    LET F[n \in 0 .. Len(log)] ==
            IF n = 0 THEN <<>>
            ELSE IF log[n].name = "BootAttempt" /\ log[n].device = d
                 THEN Append(F[n - 1], log[n].value)
                 ELSE F[n - 1]
    IN  F[Len(log)]

\* The ids given to the stages of each device are 0, 1, .., n - 1 in order.
StageIdsGapless ==
    \A d \in Addr :
        AttemptIds(events, d) = [i \in 1 .. Len(deviceBootRecords[d]) |-> i - 1]

\* C7: a successful verifyBootStage by d assigns the stage id that was d's
\* stage count before the call and makes the count one greater, so the ids of
\* each device are 0 .. n-1 without gap or duplicate.
C7_StageIndexIsPriorCount ==
    /\ Submitted
          => /\ last.arg = Len(prev.records[last.caller])
             /\ Len(deviceBootRecords[last.caller])
                    = Len(prev.records[last.caller]) + 1
             /\ events[Len(prev.events) + 1] = EvBootAttempt(last.caller, last.arg)
    /\ StageIdsGapless

\* C7 witness: a device has submitted its second stage.
C7_Witness == Submitted /\ last.arg = 1

\* C8: registerTrustedFirmware or updateVerificationThreshold called by another
\* identity than the admin fails with "Admin only" (Unauthorized) and changes
\* neither the contract's state, its log nor the pending requests.
C8_NonAdminRejected ==
    (/\ last.op \in {"registerTrustedFirmware", "updateVerificationThreshold"}
     /\ last.caller # admin)
        => last.err = "Admin only" /\ NothingChanged

\* C8 witness: a non-admin call was rejected in a state that holds a profile
\* and a stage.
C8_Witness ==
    /\ last.op \in {"registerTrustedFirmware", "updateVerificationThreshold"}
    /\ last.caller # admin
    /\ last.err = "Admin only"
    /\ \E d \in Addr : Registered(d)
    /\ \E d \in Addr : deviceBootRecords[d] # <<>>

\* C9: a call made by c appends no stage to the history of another device, and
\* a successful request by c is made for a stage of c's own history: it
\* forwards the score handle of that stage.
C9_OwnHistoryOnly ==
    /\ \A d \in Addr :
          d # last.caller => Len(deviceBootRecords[d]) = Len(prev.records[d])
    /\ (last.op = "requestBootStatusDecryption" /\ last.err = "")
          => /\ last.arg < Len(prev.records[last.caller])
             /\ requests = Append(prev.requests,
                    NewRequest(last.caller, last.arg,
                        StageAt(prev.records, last.caller, last.arg).overallStatus))

\* C9 witness: a device has requested decryption of one of its stages while
\* another identity holds a stage too.
C9_Witness ==
    /\ last.op = "requestBootStatusDecryption" /\ last.err = ""
    /\ \E d \in Addr : d # last.caller /\ deviceBootRecords[d] # <<>>

\* C10: a callback whose proof does not authenticate (requestId, cleartext)
\* fails with InvalidProof and changes nothing, the requests included; the
\* authentic callback of the same request that follows it passes the proof
\* check, and is processed when its sender has a history.
C10_InvalidProofRejected ==
    /\ (/\ last.op = "decryptBootStatus"
        /\ ~Authentic(prev.requests, last.arg, last.cleartext, last.proof))
          => last.err = "InvalidProof" /\ NothingChanged
    /\ (last.op = "decryptBootStatus" /\ last.after = "rejected")
          => /\ last.err # "InvalidProof"
             /\ prev.records[last.caller] # <<>> => last.err = ""

\* C10 witness: an authentic callback was processed right after a callback of
\* the same request was rejected.
C10_Witness == Processed /\ last.after = "rejected"

-----------------------------------------------------------------------------
(* Events, thresholds and scores, for the properties that follow *)

\* The events the latest call appended to the log.
NewEvents == SubSeq(events, Len(prev.events) + 1, Len(events))

IsDecisionEvent(e) == e.name \in {"VerificationPassed", "VerificationFailed"}

NoDecisionEvent(evs) == \A k \in 1 .. Len(evs) : ~IsDecisionEvent(evs[k])

\* The threshold in effect when stage (d, i) was appended, read from the log:
\* the value of the last ThresholdUpdated before BootAttempt(d, i).
ThresholdAtAppend(d, i) ==
    LET F[n \in 0 .. Len(events)] ==
            IF n = 0 THEN InitialThreshold
            ELSE IF events[n].name = "ThresholdUpdated" THEN events[n].value
                 ELSE F[n - 1]
        at == CHOOSE n \in 1 .. Len(events) :
                  /\ events[n].name = "BootAttempt"
                  /\ events[n].device = d
                  /\ events[n].value = i
    IN  F[at]

\* The stage the request of the latest callback was made for is the stage the
\* callback writes to: the latest stage of its sender.
OnRequestedStage ==
    /\ last.caller = RequestOf(last).device
    /\ RequestOf(last).stageId = Len(deviceBootRecords[last.caller]) - 1

\* C11: VerificationPassed / VerificationFailed are emitted by callbacks only:
\* a verifyBootStage call appends neither, and a processed callback appends
\* exactly one, for the requested stage: Passed when score > threshold, Failed
\* otherwise.
C11_DecisionEventsOnlyFromCallback ==
    /\ Submitted => NoDecisionEvent(NewEvents)
    /\ Processed =>
          LET r == RequestOf(last) IN
          NewEvents = <<IF Exceeds(last.cleartext, verificationThreshold)
                        THEN EvVerificationPassed(r.device, r.stageId)
                        ELSE EvVerificationFailed(r.device, r.stageId)>>

\* C12: a processed callback of a request made for a stage whose three flags
\* are already true leaves that stage record unchanged and appends no
\* VerificationPassed / VerificationFailed event.
C12_RefinalizeIsNoOp ==
    Processed =>
        LET r == RequestOf(last) IN
        AllVerified(StageAt(prev.records, r.device, r.stageId))
            => /\ StageAt(deviceBootRecords, r.device, r.stageId)
                      = StageAt(prev.records, r.device, r.stageId)
               /\ NoDecisionEvent(NewEvents)

\* C12 witness: the second request made for a verified stage was resolved by a
\* passing callback that writes to that very stage.
C12_Witness ==
    /\ Processed /\ last.arg = 1 /\ OnRequestedStage
    /\ requests[1].device = requests[2].device
    /\ requests[1].stageId = requests[2].stageId
    /\ AllVerified(StageAt(prev.records, requests[2].device, requests[2].stageId))
    /\ CallbackDecision(last.cleartext, verificationThreshold)

\* C13: the decision a callback finalizes for a stage uses the threshold that
\* was in effect when the stage was appended, not the current one: an
\* unverified stage becomes verified exactly when its score exceeds that
\* threshold.  (Stated for callbacks that write to the requested stage.)
C13_DecisionUsesThresholdAtAppend ==
    (Processed /\ OnRequestedStage) =>
        LET r == RequestOf(last)
            before == StageAt(prev.records, r.device, r.stageId)
            after == StageAt(deviceBootRecords, r.device, r.stageId)
        IN  ~AllVerified(before)
                => (AllVerified(after)
                      <=> Exceeds(last.cleartext, ThresholdAtAppend(r.device, r.stageId)))

\* C14: requestBootStatusDecryption(stageId) by d with stageId >= the length of
\* d's history (an empty history included) fails with "Invalid stage ID"
\* (InvalidStage), issues no request and changes nothing.
C14_InvalidStageRejected ==
    (/\ last.op = "requestBootStatusDecryption"
     /\ last.arg >= Len(prev.records[last.caller]))
        => /\ last.err = "Invalid stage ID"
           /\ requests = prev.requests
           /\ NothingChanged

\* C14 witness: a request for the index one past a non-empty history was
\* rejected while a request is outstanding.
C14_Witness ==
    /\ last.op = "requestBootStatusDecryption"
    /\ last.err = "Invalid stage ID"
    /\ last.arg = Len(deviceBootRecords[last.caller])
    /\ last.arg >= 1
    /\ requests # <<>>

\* C15: getBootStageStatus(device, stageId) fails with "Invalid stage ID" for
\* stageId >= getBootStageCount(device), else returns the three flags and the
\* timestamp stored in that stage; getBootStageCount returns the length of the
\* history; neither changes any state.
C15_ViewsReadStoredStage ==
    /\ last.op = "getBootStageStatus" =>
          LET d == last.arg[1]
              i == last.arg[2]
          IN  /\ NothingChanged
              /\ IF i >= Len(deviceBootRecords[d])
                 THEN last.err = "Invalid stage ID"
                 ELSE /\ last.err = ""
                      /\ last.result =
                            <<deviceBootRecords[d][i + 1].bootloader.isVerified,
                              deviceBootRecords[d][i + 1].kernel.isVerified,
                              deviceBootRecords[d][i + 1].rootfs.isVerified,
                              deviceBootRecords[d][i + 1].timestamp>>
    /\ last.op = "getBootStageCount" =>
          /\ NothingChanged
          /\ last.err = ""
          /\ last.result = <<Len(deviceBootRecords[last.arg])>>

\* C15 witness: the status of a verified second stage was read.
C15_Witness ==
    /\ last.op = "getBootStageStatus" /\ last.err = ""
    /\ last.arg[2] = 1
    /\ last.result = <<TRUE, TRUE, TRUE, 2>>

\* The reference handles stored for device d in a snapshot.
ProfileOf(snap, d) == <<snap.checksums[d], snap.sizes[d], snap.versions[d]>>

\* C16: a successful registerTrustedFirmware(device, c, s, v) makes the three
\* reference fields of device (c, s, v), leaves the references of the other
\* devices and every boot history unchanged, and called with the values already
\* stored it changes nothing but the log.
C16_RegisterReplacesProfile ==
    (last.op = "registerTrustedFirmware" /\ last.err = "") =>
        /\ ProfileOf(Snapshot, last.arg) = last.input
        /\ \A d \in Addr \ {last.arg} : ProfileOf(Snapshot, d) = ProfileOf(prev, d)
        /\ deviceBootRecords = prev.records
        /\ verificationThreshold = prev.threshold
        /\ ProfileOf(prev, last.arg) = last.input
              => [Snapshot EXCEPT !.events = prev.events] = prev

\* C16 witness: a registered profile was replaced by other handles for a device
\* that holds a stage scored against the previous profile.
C16_Witness ==
    /\ last.op = "registerTrustedFirmware" /\ last.err = ""
    /\ ProfileOf(prev, last.arg)[1] # NullHandle
    /\ ProfileOf(prev, last.arg) # last.input
    /\ deviceBootRecords[last.arg] # <<>>

\* A stage record with its three flags cleared.
WithoutFlags(stage) ==
    [stage EXCEPT !.bootloader.isVerified = FALSE,
                  !.kernel.isVerified = FALSE,
                  !.rootfs.isVerified = FALSE]

\* C17: histories are append-only: over every call the stage count of a device
\* does not decrease, a record keeps its index, its ciphertext fields, its
\* score handle and its timestamp, and a flag changes from false to true only.
C17_HistoryAppendOnly ==
    \A d \in Addr :
        /\ Len(deviceBootRecords[d]) >= Len(prev.records[d])
        /\ \A i \in 1 .. Len(prev.records[d]) :
              /\ WithoutFlags(deviceBootRecords[d][i]) = WithoutFlags(prev.records[d][i])
              /\ \A k \in 1 .. 3 :
                    Flags(prev.records[d][i])[k] => Flags(deviceBootRecords[d][i])[k]

\* C17 witness: a stage was appended after a stage whose evidence differs.
C17_Witness ==
    /\ Submitted /\ last.arg = 1
    /\ WithoutFlags(deviceBootRecords[last.caller][1]).bootloader
           # WithoutFlags(deviceBootRecords[last.caller][2]).bootloader

Indicator(b) == IF b THEN 1 ELSE 0

\* [checksum = reference checksum] + [size = reference size] + [version > 0]
\* on the plaintexts.
ComponentScore(component, d) ==
    Indicator(Plain(component.encryptedChecksum) = Plain(trustedChecksums[d]))
    + Indicator(Plain(component.encryptedSize) = Plain(trustedSizes[d]))
    + Indicator(Plain(component.encryptedVersion) > 0)

\* C18: the overall score of a stage submitted by a registered device is the
\* sum of its three component scores, each [checksum matches] + [size matches]
\* + [version > 0] (the reference version is not compared), so it is in 0..9:
\* all fields matching gives 9, a single bootloader checksum mismatch 8.
C18_ScoreIsSumOfMatches ==
    (Submitted /\ Registered(last.caller)) =>
        LET d == last.caller
            stage == StageAt(deviceBootRecords, d, last.arg)
            score == Plain(stage.overallStatus)
            evidence == <<WithoutFlags(stage).bootloader, WithoutFlags(stage).kernel,
                          WithoutFlags(stage).rootfs>>
            matching == ProfileOf(Snapshot, d) = <<asEuint32(42), asEuint32(1024), asEuint32(3)>>
        IN  /\ score = ComponentScore(stage.bootloader, d)
                       + ComponentScore(stage.kernel, d)
                       + ComponentScore(stage.rootfs, d)
            /\ score \in 0 .. 9
            /\ (matching /\ evidence = <<GoodComponent, GoodComponent, GoodComponent>>)
                  => score = 9
            /\ (matching /\ evidence = <<BadChecksumComponent, GoodComponent, GoodComponent>>)
                  => score = 8

\* C18 witness: a registered device submitted evidence whose bootloader
\* checksum alone mismatches; it scored 8.
C18_Witness ==
    /\ Submitted /\ Registered(last.caller)
    /\ StageAt(deviceBootRecords, last.caller, last.arg).bootloader.encryptedChecksum
           # trustedChecksums[last.caller]
    /\ Plain(StageAt(deviceBootRecords, last.caller, last.arg).overallStatus) = 8

\* C19: registerTrustedFirmware by the admin with a null handle for checksum,
\* size or version fails with InvalidCiphertext and changes nothing.
C19_NullHandleRejected ==
    (/\ last.op = "registerTrustedFirmware"
     /\ last.caller = admin
     /\ \E k \in 1 .. 3 : last.input[k] = NullHandle)
        => last.err = "InvalidCiphertext" /\ NothingChanged

\* C20: a stage (d, i) has a verified flag set only if a decryption request was
\* made for (d, i) and its score exceeds the threshold; a stage that was never
\* requested has no flag set.
C20_VerifiedOnlyByCallback ==
    \A d \in Addr : \A i \in 0 .. Len(deviceBootRecords[d]) - 1 :
        ~NoneVerified(StageAt(deviceBootRecords, d, i))
            => \E k \in 1 .. Len(requests) :
                   /\ requests[k].device = d
                   /\ requests[k].stageId = i

-----------------------------------------------------------------------------
(* Requests, frames and the log *)

\* C21: a successful requestBootStatusDecryption(i) by d issues exactly one
\* request, with a fresh id, recorded for (d, i), and the callback of a request
\* is matched to that (d, i) by its id alone: what a processed callback writes
\* is the decision on the stage of its request, whoever delivers it.
C21_RequestMatchedById ==
    /\ (last.op = "requestBootStatusDecryption" /\ last.err = "")
          => /\ Len(requests) = Len(prev.requests) + 1
             /\ requests[Len(requests)].device = last.caller
             /\ requests[Len(requests)].stageId = last.arg
    /\ Processed =>
          LET r == RequestOf(last) IN
          deviceBootRecords =
              Finalize(prev.records, r.device, r.stageId,
                       CallbackDecision(last.cleartext, verificationThreshold))

\* C22: in every reachable state the three verified flags of every stage are
\* equal: all false or all true.
C22_FlagsAllOrNothing ==
    \A d \in Addr : \A i \in 0 .. Len(deviceBootRecords[d]) - 1 :
        \/ AllVerified(StageAt(deviceBootRecords, d, i))
        \/ NoneVerified(StageAt(deviceBootRecords, d, i))

\* C22 witness: a verified and an unverified stage are stored after a callback.
C22_Witness ==
    /\ last.op = "decryptBootStatus"
    /\ \E d \in Addr : \E i \in 0 .. Len(deviceBootRecords[d]) - 1 :
           AllVerified(StageAt(deviceBootRecords, d, i))
    /\ \E d \in Addr : \E i \in 0 .. Len(deviceBootRecords[d]) - 1 :
           NoneVerified(StageAt(deviceBootRecords, d, i))

\* The flags of every stage, and the decision events of a log as a set.
AllFlags(records) ==
    [d \in Addr |-> [i \in 1 .. Len(records[d]) |-> Flags(records[d][i])]]

DecisionEvents(log) == {log[n] : n \in {m \in 1 .. Len(log) : IsDecisionEvent(log[m])}}

\* Two callbacks delivered one after the other, under the current threshold.
TwoCallbacks(c1, s1, c2, s2) ==
    LET e1 == CallbackEffect(deviceBootRecords, events, verificationThreshold, c1, s1)
    IN  CallbackEffect(e1[1], e1[2], verificationThreshold, c2, s2)

\* C23: callback delivery order is irrelevant: for two requests made for
\* different stages or devices, delivering their authentic callbacks in either
\* order (by any senders that hold a stage) gives the same flags for every
\* stage and the same set of decision events.
C23_CallbackOrderIrrelevant ==
    \A k1, k2 \in 1 .. Len(requests) :
        (requests[k1].device # requests[k2].device
         \/ requests[k1].stageId # requests[k2].stageId) =>
            \A c1, c2 \in {c \in Addr : deviceBootRecords[c] # <<>>} :
                LET s1 == Plain(requests[k1].handle)
                    s2 == Plain(requests[k2].handle)
                    a == TwoCallbacks(c1, s1, c2, s2)
                    b == TwoCallbacks(c2, s2, c1, s1)
                IN  /\ AllFlags(a[1]) = AllFlags(b[1])
                    /\ DecisionEvents(a[2]) = DecisionEvents(b[2])

\* C23 witness: a callback was processed while two requests made for different
\* stages are outstanding, one whose score passes and one whose score does not.
C23_Witness ==
    /\ Processed
    /\ Len(requests) = 2
    /\ <<requests[1].device, requests[1].stageId>>
           # <<requests[2].device, requests[2].stageId>>
    /\ CallbackDecision(Plain(requests[1].handle), verificationThreshold)
           # CallbackDecision(Plain(requests[2].handle), verificationThreshold)

\* C24: a successful updateVerificationThreshold leaves every boot history (the
\* flags of every stage included), every reference profile, the requests and
\* the admin unchanged.
C24_ThresholdUpdateFrame ==
    (last.op = "updateVerificationThreshold" /\ last.err = "") =>
        /\ deviceBootRecords = prev.records
        /\ \A d \in Addr : ProfileOf(Snapshot, d) = ProfileOf(prev, d)
        /\ requests = prev.requests
        /\ admin = prev.admin

\* C24 witness: the threshold was updated while a request is outstanding and a
\* stored stage would be decided differently under the new threshold.
C24_Witness ==
    /\ last.op = "updateVerificationThreshold" /\ last.err = ""
    /\ requests # <<>>
    /\ \E d \in Addr : \E i \in 0 .. Len(deviceBootRecords[d]) - 1 :
           AllVerified(StageAt(deviceBootRecords, d, i))
               # SyncDecision(StageAt(deviceBootRecords, d, i).overallStatus,
                              verificationThreshold)

\* The latest call concerns one device: the device a registration names, the
\* sender of a submission or a request, the device of a callback's request.
ConcernsDevice ==
    \/ last.op \in {"registerTrustedFirmware", "verifyBootStage",
                    "requestBootStatusDecryption"}
    \/ last.op = "decryptBootStatus" /\ last.arg < Len(requests)

Concerned ==
    IF last.op = "registerTrustedFirmware" THEN last.arg
    ELSE IF last.op = "decryptBootStatus" THEN RequestOf(last).device
    ELSE last.caller

\* C25: a call that concerns device A leaves the reference profile and the
\* boot history (flags included) of every other device unchanged.
C25_DevicesIndependent ==
    ConcernsDevice =>
        \A b \in Addr \ {Concerned} :
            /\ ProfileOf(Snapshot, b) = ProfileOf(prev, b)
            /\ deviceBootRecords[b] = prev.records[b]

\* The positions of the BootAttempt(d, i) events in the log.
AttemptsAt(d, i) ==
    {n \in 1 .. Len(events) :
        /\ events[n].name = "BootAttempt"
        /\ events[n].device = d
        /\ events[n].value = i}

\* C26: the log and the histories agree: there is exactly one BootAttempt(d, i)
\* for every stored stage (d, i) and none for another index, the BootAttempt
\* events of a device appear in increasing order of stage id, and a call that
\* fails appends no event.
C26_LogMatchesHistories ==
    /\ \A d \in Addr : \A i \in 0 .. MaxEvents :
          Cardinality(AttemptsAt(d, i))
              = IF i < Len(deviceBootRecords[d]) THEN 1 ELSE 0
    /\ \A d \in Addr : \A i, j \in 0 .. MaxEvents :
          \A n \in AttemptsAt(d, i), m \in AttemptsAt(d, j) :
              n < m => i < j
    /\ last.err # "" => NewEvents = <<>>

\* C26 witness: a call failed after a device appended its second stage.
C26_Witness ==
    /\ AttemptsAt("dev1", 1) # {}
    /\ last.err # ""

\* C27: the comparison uses the exact threshold: under a threshold >= 2^32 no
\* submission and no callback sets a flag.
C27_ExactThreshold ==
    verificationThreshold.hi > 0 =>
        /\ Submitted
              => NoneVerified(StageAt(deviceBootRecords, last.caller, last.arg))
        /\ Processed => AllFlags(deviceBootRecords) = AllFlags(prev.records)

\* C28: a callback whose sender (the device it resolves to) has an empty
\* history fails and changes nothing.
C28_EmptyHistoryCallbackFails ==
    (last.op = "decryptBootStatus" /\ prev.records[last.caller] = <<>>)
        => last.err # "" /\ NothingChanged

\* C28 witness: an authentic callback with a passing score was sent by an
\* address without history and reverted in the index computation.
C28_Witness ==
    /\ last.op = "decryptBootStatus" /\ last.err = "Panic"
    /\ CallbackDecision(last.cleartext, verificationThreshold)

\* C29: the admin is the deployer in every reachable state, and no call
\* changes it.
C29_AdminFixed ==
    /\ admin = Deployer
    /\ admin = prev.admin

\* C29 witness: the deployer has registered a profile and updated the
\* threshold, and another address was refused.
C29_Witness ==
    /\ last.err = "Admin only"
    /\ Registered("dev1")
    /\ verificationThreshold # InitialThreshold

-----------------------------------------------------------------------------
(* The dashboard handlers.  Each await of a handler is a step: the store   *)
(* calls of the clients interleave.                                         *)

\* The records stored so far, and the id the next submitRecord generates.
StoredIds == {n \in 1 .. MaxRecords : getData(kvStore, RecordIds[n]) # EmptyBytes}

\* A submitRecord that generates its id and goes on to the index without
\* storing the record.
SubmitSkipsRecord(c) ==
    /\ session[c].pc = "idle"
    /\ Len(getData(kvStore, BootKeys)) < MaxRecords
    /\ session' = [session EXCEPT ![c].pc = "wroteRecord",
                                  ![c].recordId = RecordIds[1]]
    /\ UNCHANGED <<kvStore, contractVars>>

\* submitRecord up to its first write: setData(boot_<recordId>, recordData)
\* with status "pending".
SubmitWriteRecord(c) ==
    /\ session[c].pc = "idle"
    /\ Cardinality(StoredIds) < MaxRecords
    /\ LET recordId == RecordIds[Cardinality(StoredIds) + 1] IN
       /\ kvStore' = setData(kvStore, recordId, RecordBytes("pending"))
       /\ session' = [session EXCEPT ![c].pc = "wroteRecord",
                                     ![c].recordId = recordId]
    /\ UNCHANGED contractVars

\* keysBytes = getData("boot_keys"); keys = parse(keysBytes)
SubmitReadKeys(c) ==
    /\ session[c].pc = "wroteRecord"
    /\ session' = [session EXCEPT ![c].pc = "readKeys",
                                  ![c].keys = ParseKeys(getData(kvStore, BootKeys))]
    /\ UNCHANGED <<kvStore, contractVars>>

\* keys.push(recordId); setData("boot_keys", keys): submitRecord succeeded,
\* and goes on to await loadRecords().
SubmitWriteKeys(c) ==
    /\ session[c].pc = "readKeys"
    /\ kvStore' = setData(kvStore, BootKeys,
                          Append(session[c].keys, session[c].recordId))
    /\ session' = [session EXCEPT ![c].pc = "loading",
                                  ![c].recordId = <<>>,
                                  ![c].keys = <<>>,
                                  ![c].submitted = @ \cup {session[c].recordId}]
    /\ UNCHANGED contractVars

\* An await of submitRecord throws (a rejected or failed transaction): the
\* catch block reports the error and the handler ends.
SubmitFails(c) ==
    /\ session[c].pc \in {"wroteRecord", "readKeys"}
    /\ session' = [session EXCEPT ![c].pc = "idle",
                                  ![c].recordId = <<>>,
                                  ![c].keys = <<>>]
    /\ UNCHANGED <<kvStore, contractVars>>

\* JSON.parse(recordBytes).status
StatusOf(recordBytes) == recordBytes[1]

\* The list loadRecords builds: for each key of the index whose record bytes
\* are not empty, the id and the stored status.
LoadedRecords(store) ==
    LET keys == ParseKeys(getData(store, BootKeys)) IN
    { <<keys[n], StatusOf(getData(store, keys[n]))>> :
        n \in {m \in 1 .. Len(keys) : Len(getData(store, keys[m])) > 0} }

\* loadRecords: on mount, on refresh, and at the end of a handler that
\* succeeded.  It only reads the store; its reads are taken as one step.
LoadRecords(c) ==
    /\ session[c].pc \in {"idle", "loading"}
    /\ session' = [session EXCEPT ![c].pc = "idle",
                                  ![c].records = LoadedRecords(kvStore)]
    /\ session' # session
    /\ UNCHANGED <<kvStore, contractVars>>

\* The Verify and Mark Failed buttons of a record are rendered while the
\* displayed status of the record is "pending".
ButtonsShown(c, recordId) == <<recordId, "pending">> \in session[c].records

\* verifyRecord / markFailed up to the read: recordBytes = getData(boot_<id>);
\* empty bytes throw "Record not found" (the handler ends in its catch).
AfterUpdateRead(c, recordId, pc) ==
    IF Len(getData(kvStore, recordId)) = 0
    THEN session
    ELSE [session EXCEPT ![c].pc = pc, ![c].recordId = recordId]

\* setData(boot_<id>, {...recordData, status}), then await loadRecords().
AfterUpdateWrite(c) ==
    [session EXCEPT ![c].pc = "loading", ![c].recordId = <<>>]

VerifyRecordRead(c) ==
    /\ session[c].pc = "idle"
    /\ \E n \in 1 .. MaxRecords :
          /\ ButtonsShown(c, RecordIds[n])
          /\ session' = AfterUpdateRead(c, RecordIds[n], "verifyRead")
    /\ UNCHANGED <<kvStore, contractVars>>

VerifyRecordWrite(c) ==
    /\ session[c].pc = "verifyRead"
    /\ kvStore' = setData(kvStore, session[c].recordId, RecordBytes("verified"))
    /\ session' = AfterUpdateWrite(c)
    /\ UNCHANGED contractVars

MarkFailedRead(c) ==
    /\ session[c].pc = "idle"
    /\ \E n \in 1 .. MaxRecords :
          /\ ButtonsShown(c, RecordIds[n])
          /\ session' = AfterUpdateRead(c, RecordIds[n], "failRead")
    /\ UNCHANGED <<kvStore, contractVars>>

MarkFailedWrite(c) ==
    /\ session[c].pc = "failRead"
    /\ kvStore' = setData(kvStore, session[c].recordId, RecordBytes("failed"))
    /\ session' = AfterUpdateWrite(c)
    /\ UNCHANGED contractVars

\* The setData of verifyRecord or markFailed throws: the catch block reports
\* the error, nothing is written.
UpdateFails(c) ==
    /\ session[c].pc \in {"verifyRead", "failRead"}
    /\ session' = [session EXCEPT ![c].pc = "idle", ![c].recordId = <<>>]
    /\ UNCHANGED <<kvStore, contractVars>>

MirrorNext ==
    \/ \E c \in Clients : SubmitWriteRecord(c)
    \/ \E c \in Clients : SubmitReadKeys(c)
    \/ \E c \in Clients : SubmitWriteKeys(c)
    \/ \E c \in Clients : SubmitFails(c)
    \/ \E c \in Clients : LoadRecords(c)
    \/ \E c \in Clients : VerifyRecordRead(c)
    \/ \E c \in Clients : VerifyRecordWrite(c)
    \/ \E c \in Clients : MarkFailedRead(c)
    \/ \E c \in Clients : MarkFailedWrite(c)
    \/ \E c \in Clients : UpdateFails(c)

MirrorSpec == Init /\ [][MirrorNext]_vars

\* The ids listed in the index.
IndexedIds == {getData(kvStore, BootKeys)[n] : n \in 1 .. Len(getData(kvStore, BootKeys))}

\* C30: the id of every record whose submitRecord completed is in the
\* "boot_keys" index, after any interleaving of the clients' submitRecord
\* calls.
C30_IndexKeepsEverySubmittedId ==
    \A c \in Clients : session[c].submitted \subseteq IndexedIds

\* The stored status of record n ("" while it is not stored).
StoredStatus(store, n) ==
    IF Len(getData(store, RecordIds[n])) = 0 THEN ""
    ELSE StatusOf(getData(store, RecordIds[n]))

\* C31: the stored status of a record moves from "pending" to "verified" or
\* "failed" only, and is terminal then: once it is "verified" or "failed" no
\* later verifyRecord or markFailed call changes it.
C31_StatusTerminal ==
    [][\A n \in 1 .. MaxRecords :
          /\ StoredStatus(kvStore, n) \in {"verified", "failed"}
                => StoredStatus(kvStore', n) = StoredStatus(kvStore, n)
          /\ StoredStatus(kvStore, n) = "pending"
                => StoredStatus(kvStore', n) \in {"pending", "verified", "failed"}]_vars

\* C32: every id listed in "boot_keys" has a stored boot_<id> record, in every
\* reachable state.
C32_IndexedIdsAreStored ==
    \A id \in IndexedIds : Len(getData(kvStore, id)) > 0

\* C32 witness: the index lists a record while another record is stored but
\* not listed, its submitRecord having failed between the two writes.
C32_Witness ==
    /\ IndexedIds # {}
    /\ \E n \in StoredIds : RecordIds[n] \notin IndexedIds
    /\ \A c \in Clients : session[c].pc = "idle"

====
